---- MODULE Spec2Model ----
(***************************************************************************)
(* MCPStack: the pipeline builder (src/src/MCPStack/stack.py), the tool    *)
(* contract (core/tool/base.py) and the stack configuration               *)
(* (core/config.py), as a state machine over a heap of pipeline, tool,     *)
(* configuration and serving-runtime objects.                              *)
(*                                                                         *)
(* Object identities are indices into the heaps (pipelines, tools,         *)
(* configs, handles); 0 stands for Python's None.  Every action is one     *)
(* whole public operation; `last` records what the operation did (its      *)
(* outcome and the ordered calls it made on its collaborators).            *)
(***************************************************************************)
EXTENDS Integers, Sequences, FiniteSets, TLC

VARIABLES pipelines, tools, configs, handles, environ, files, saved, hostfs, last

vars == <<pipelines, tools, configs, handles, environ, files, saved, hostfs, last>>

(***************************************************************************)
(* Bounds of the model.                                                    *)
(***************************************************************************)
MaxPipelines == 3   \* MCPStackCore objects alive in one run
MaxTools == 2       \* BaseTool objects alive in one run
MaxCalls == 3       \* initialize() calls made by build() plus serve calls, in one run

MaxConfigs == MaxPipelines - 1
MaxHandles == MaxPipelines - 1

None == 0

(***************************************************************************)
(* Text: identifiers are sequences of one-character strings, so that       *)
(* save()'s to_snake_case can be computed character by character.          *)
(***************************************************************************)
UpperChars == <<"A","B","C","D","E","F","G","H","I","J","K","L","M",
                "N","O","P","Q","R","S","T","U","V","W","X","Y","Z">>
LowerChars == <<"a","b","c","d","e","f","g","h","i","j","k","l","m",
                "n","o","p","q","r","s","t","u","v","w","x","y","z">>

IsUpper(c) == \E i \in 1..26 : UpperChars[i] = c

Lower(c) == IF IsUpper(c) THEN LowerChars[CHOOSE i \in 1..26 : UpperChars[i] = c] ELSE c

RECURSIVE SnakeFrom(_, _)
SnakeFrom(name, i) ==
    IF i > Len(name) THEN <<>>
    ELSE (IF i > 1 /\ IsUpper(name[i]) THEN <<"_">> ELSE <<>>)
         \o <<Lower(name[i])>> \o SnakeFrom(name, i + 1)

\* re.sub(r"(?<!^)(?=[A-Z])", "_", name).lower()
to_snake_case(name) == SnakeFrom(name, 1)

(***************************************************************************)
(* Tool classes.  A tool is a plugin: BaseTool leaves actions(), to_dict(), *)
(* from_dict() and the _initialize/_teardown/_post_load overrides to the   *)
(* plugin, and names required_env_vars and backends as its data.  The      *)
(* table lists one plugin per behaviour the builder has to cope with; a    *)
(* hook that raises does so every time it is called.                       *)
(***************************************************************************)
Absent == "<absent>"     \* a declared default of None / an unset variable

Backend(hasTeardown, raises) == [hasTeardown |-> hasTeardown, raises |-> raises]

NoEnv == [k \in {} |-> Absent]

ToolClass ==
    [HelloWorld |->
        [name |-> <<"H","e","l","l","o","W","o","r","l","d">>,
         required_env_vars |-> NoEnv,
         backends |-> <<>>,
         initRaises |-> FALSE, teardownRaises |-> FALSE, registerRaises |-> FALSE,
         nActions |-> 2],
     ApiTool |->
        [name |-> <<"A","p","i","T","o","o","l">>,
         required_env_vars |-> [k \in {"API_KEY"} |-> Absent],
         backends |-> <<Backend(TRUE, TRUE), Backend(TRUE, FALSE)>>,
         initRaises |-> FALSE, teardownRaises |-> FALSE, registerRaises |-> FALSE,
         nActions |-> 1],
     DBTool |->
        [name |-> <<"D","B","T","o","o","l">>,
         required_env_vars |-> [k \in {"API_KEY"} |-> "fallback"],
         backends |-> <<Backend(FALSE, FALSE), Backend(TRUE, FALSE)>>,
         initRaises |-> FALSE, teardownRaises |-> FALSE, registerRaises |-> FALSE,
         nActions |-> 1],
     BadInit |->
        [name |-> <<"B","a","d","I","n","i","t">>,
         required_env_vars |-> NoEnv,
         backends |-> <<Backend(TRUE, FALSE)>>,
         initRaises |-> TRUE, teardownRaises |-> TRUE, registerRaises |-> FALSE,
         nActions |-> 1],
     BadAction |->
        [name |-> <<"B","a","d","A","c","t","i","o","n">>,
         required_env_vars |-> NoEnv,
         backends |-> <<>>,
         initRaises |-> FALSE, teardownRaises |-> FALSE, registerRaises |-> TRUE,
         nActions |-> 1]]

ToolClasses == DOMAIN ToolClass

\* The tools a caller hands to with_tool / with_tools: one object per class,
\* constructed with a parameter payload.
ToolChoices ==
    {[cls |-> c, params |-> IF c = "ApiTool" THEN "p2" ELSE "p1"] : c \in ToolClasses}

\* ALL_TOOLS: registry identifier -> tool class.  DBTool is registered under
\* "db_tool", which is not what to_snake_case makes of its class name.
ALL_TOOLS ==
    {[key |-> <<"h","e","l","l","o","_","w","o","r","l","d">>, cls |-> "HelloWorld"],
     [key |-> <<"a","p","i","_","t","o","o","l">>, cls |-> "ApiTool"],
     [key |-> <<"d","b","_","t","o","o","l">>, cls |-> "DBTool"],
     [key |-> <<"b","a","d","_","i","n","i","t">>, cls |-> "BadInit"],
     [key |-> <<"b","a","d","_","a","c","t","i","o","n">>, cls |-> "BadAction"]}

InRegistry(key) == \E r \in ALL_TOOLS : r.key = key

RegistryClass(key) == (CHOOSE r \in ALL_TOOLS : r.key = key).cls

(***************************************************************************)
(* StackConfig (core/config.py).  An environment map is a function from a  *)
(* set of variable names to values.                                        *)
(***************************************************************************)
Keys == {"API_KEY"}
Values == {"secret"}
LogLevels == {"INFO", "DEBUG"}

EnvMaps == UNION {[D -> Values] : D \in SUBSET Keys}

\* dict.update / the loop of _apply_config: m overridden by n
Overlay(m, n) ==
    [k \in DOMAIN m \cup DOMAIN n |-> IF k \in DOMAIN n THEN n[k] ELSE m[k]]

\* get_env_var looking in the process environment before the override map
LookupEnvFirst(cfg, env, key, default) ==
    IF key \in DOMAIN env THEN env[key]
    ELSE IF key \in DOMAIN cfg.env_vars THEN cfg.env_vars[key]
    ELSE default

\* self.env_vars.get(key, os.getenv(key, default))
Lookup(cfg, env, key, default) ==
    IF key \in DOMAIN cfg.env_vars THEN cfg.env_vars[key]
    ELSE IF key \in DOMAIN env THEN env[key]
    ELSE default

\* get_env_var raises MCPStackConfigError
GetEnvRaises(cfg, env, key, default, raise_if_missing) ==
    Lookup(cfg, env, key, default) = Absent /\ raise_if_missing

\* get_env_var's return value: value or ""
get_env_var(cfg, env, key, default) ==
    LET value == Lookup(cfg, env, key, default)
    IN IF value = Absent THEN "" ELSE value

\* The keys of a tool class's required_env_vars whose lookup raises.
MissingOf(cfg, env, cls) ==
    {k \in DOMAIN ToolClass[cls].required_env_vars :
        GetEnvRaises(cfg, env, k, ToolClass[cls].required_env_vars[k],
                     ToolClass[cls].required_env_vars[k] = Absent)}

\* the elements of a finite set, one after the other
RECURSIVE Listed(_)
Listed(S) == IF S = {} THEN <<>> ELSE LET x == CHOOSE x \in S : TRUE
                                      IN <<x>> \o Listed(S \ {x})

\* errors.append(f"{tool.__class__.__name__}: {e}") for the variables of one tool
ErrorsOf(cfg, env, tl, ts, i) ==
    LET missing == Listed(MissingOf(cfg, env, tl[ts[i]].cls))
    IN [j \in 1..Len(missing) |-> [pos |-> i, tool |-> tl[ts[i]].cls, key |-> missing[j]]]

RECURSIVE ErrorsFrom(_, _, _, _, _)
ErrorsFrom(cfg, env, tl, ts, i) ==
    IF i > Len(ts) THEN <<>>
    ELSE ErrorsOf(cfg, env, tl, ts, i) \o ErrorsFrom(cfg, env, tl, ts, i + 1)

\* validate_for_tools raising at the first variable that does not resolve
validate_until_first_error(cfg, env, tl, ts) ==
    LET errors == ErrorsFrom(cfg, env, tl, ts, 1)
    IN IF errors = <<>> THEN <<>> ELSE <<errors[1]>>

\* validate_for_tools: the errors list it joins into its message
validate_for_tools(cfg, env, tl, ts) == ErrorsFrom(cfg, env, tl, ts, 1)

\* the errors list, as (position in tools, variable) pairs
ValidationErrors(cfg, env, tl, ts) ==
    LET errors == validate_for_tools(cfg, env, tl, ts)
    IN {<<errors[i].pos, errors[i].key>> : i \in 1..Len(errors)}

\* merge_env writing every key, whatever is there
NeverConflicts(env_vars, key, value) == FALSE

\* if prefixed_key in self.env_vars and self.env_vars[prefixed_key] != value
Conflicts(env_vars, key, value) == key \in DOMAIN env_vars /\ env_vars[key] # value

\* prefixed_key = f"{prefix}{key}" if prefix else key
Prefixed(prefix, key) == IF prefix # "" THEN prefix \o key ELSE key

\* The loop of merge_env over new_env (a list of [key, value] items in dict
\* order) on M = [env_vars, out, conflict]: it stops at the first conflict
\* and keeps what it has written before.
RECURSIVE MergeFrom(_, _, _)
MergeFrom(M, items, prefix) ==
    IF items = <<>> THEN M
    ELSE LET key == Prefixed(prefix, Head(items).key)
             value == Head(items).value
         IN IF Conflicts(M.env_vars, key, value)
            THEN [M EXCEPT !.out = "ConfigError",
                           !.conflict = <<key, M.env_vars[key], value>>]
            ELSE MergeFrom([M EXCEPT !.env_vars = Overlay(@, [k \in {key} |-> value])],
                           Tail(items), prefix)

\* StackConfig.merge_env
merge_env(env_vars, new_env, prefix) ==
    MergeFrom([env_vars |-> env_vars, out |-> "ok", conflict |-> <<>>], new_env, prefix)

\* StackConfig.to_dict
ConfigToDict(cfg) == [log_level |-> cfg.log_level, env_vars |-> cfg.env_vars]

\* StackConfig.__init__ / from_dict: the new configuration object
NewConfig(log_level, env_vars) == [log_level |-> log_level, env_vars |-> env_vars]

(***************************************************************************)
(* Objects.                                                                *)
(***************************************************************************)
\* MCPStackCore.__init__
NewPipeline(config, mcp, ts) ==
    [tools |-> ts, config |-> config, mcp |-> mcp, built |-> FALSE]

\* A tool object: its class, its parameter payload (to_dict / from_dict), and
\* how often each of its hooks has been called.  bdowns[b] counts the calls of
\* teardown() on its b-th backend.
NewTool(cls, params) ==
    [cls |-> cls, params |-> params, inits |-> 0, postLoads |-> 0, teardowns |-> 0,
     bdowns |-> [b \in 1..Len(ToolClass[cls].backends) |-> 0]]

\* the identities of n tool objects constructed now
Fresh(n) == [i \in 1..n |-> Len(tools) + i]

\* FastMCP("mcpstack"): the actions registered on it, the serve calls made
NewHandle == [registered |-> <<>>, serves |-> 0]

Ev(e, t, x) == [e |-> e, t |-> t, x |-> x]

Count(s, v) == Cardinality({i \in 1..Len(s) : s[i] = v})

\* The position of the first element of s for which P holds, 0 if there is none.
First(s, P(_)) ==
    IF \E i \in 1..Len(s) : P(s[i])
    THEN CHOOSE i \in 1..Len(s) : P(s[i]) /\ \A j \in 1..(i - 1) : ~P(s[j])
    ELSE 0

Prefix(s, n) == SubSeq(s, 1, n)

RECURSIVE ActionsFrom(_, _, _)
ActionsFrom(tl, ts, i) ==
    IF i > Len(ts) THEN <<>>
    ELSE [a \in 1..ToolClass[tl[ts[i]].cls].nActions |-> [t |-> ts[i], a |-> a]]
         \o ActionsFrom(tl, ts, i + 1)

\* [action for tool in self.tools for action in tool.actions()]
ActionsOf(tl, ts) == ActionsFrom(tl, ts, 1)

(***************************************************************************)
(* build().  The body of build() is a sequence of steps run on the local   *)
(* state S = [pipelines, tools, handles, trace, out, at]; a step that      *)
(* raises sets S.out to the exception and S.at to the statement that       *)
(* raised, and the statements after it do not run.  a is                   *)
(* the call: a.p the receiver, a.fmt the `type` argument, a.createOk       *)
(* whether FastMCP() can be constructed, a.genOk whether the generator     *)
(* accepts its inputs.                                                     *)
(***************************************************************************)
Generators == {"fastmcp", "docker"}
Formats == Generators \cup {"bogus", "dockr"}

\* The text of a lookup error: the name that was not found and the registered
\* names the text contains.
NoMessage == [unknown |-> "", names |-> {}]

\* process.extractOne(name, available) scoring at least 80: the pairs of the
\* names used here that differ by one dropped letter.
CloseNames == {<<"dockr", "docker">>, <<"example_prest", "example_preset">>}

\* best, score = process.extractOne(name, available) or (None, 0);
\* suggestion = " Did you mean '{best}'?" if score >= 80 else ""
Suggestion(name, available) == {c \in available : <<name, c>> \in CloseNames}

\* f"Unknown ...: {name}.{suggestion}"
UnknownName(name, available) == [unknown |-> name, names |-> Suggestion(name, available)]

Raise(S, exc) == [S EXCEPT !.out = exc]

Log(S, ev) == [S EXCEPT !.trace = Append(@, ev)]

\* _validate without its first statement (the empty-tool check)
ValidateEnvOnly(S, a) ==
    LET pl == S.pipelines[a.p]
    IN IF ValidationErrors(configs[pl.config], environ, S.tools, pl.tools) # {}
       THEN Raise(Log(S, Ev("validate_env", 0, 0)), "ConfigError")
       ELSE Log(S, Ev("validate_env", 0, 0))

\* _validate
Validate(S, a) ==
    LET pl == S.pipelines[a.p]
        checked == Log(S, Ev("check_tools", 0, 0))
    IN IF pl.tools = <<>>
       THEN Raise(checked, "ValidationError")
       ELSE IF ValidationErrors(configs[pl.config], environ, S.tools, pl.tools) # {}
            THEN Raise(Log(checked, Ev("validate_env", 0, 0)), "ConfigError")
            ELSE Log(checked, Ev("validate_env", 0, 0))

\* _initialize_mcp
InitializeMcp(S, a) ==
    IF S.pipelines[a.p].mcp # None THEN S
    ELSE IF ~a.createOk THEN Raise(Log(S, Ev("create_handle", 0, 0)), "RuntimeError")
    ELSE LET h == Len(S.handles) + 1
         IN [Log(S, Ev("create_handle", 0, h)) EXCEPT
                !.handles = Append(@, NewHandle),
                !.pipelines[a.p].mcp = h]

\* tool.initialize() on each of the tools `called`, in order
Initialized(tl, called) ==
    [t \in DOMAIN tl |-> [tl[t] EXCEPT !.inits = @ + Count(called, t)]]

RECURSIVE LogAll(_, _, _)
LogAll(S, e, ts) ==
    IF ts = <<>> THEN S ELSE LogAll(Log(S, Ev(e, Head(ts), 0)), e, Tail(ts))

\* _initialize_tools
InitializeTools(S, a) ==
    LET ts == S.pipelines[a.p].tools
        InitRaises(t) == ToolClass[S.tools[t].cls].initRaises
        bad == First(ts, InitRaises)
        called == IF bad = 0 THEN ts ELSE Prefix(ts, bad)
        done == [LogAll(S, "initialize", called) EXCEPT
                    !.tools = Initialized(@, called)]
    IN IF bad = 0 THEN done ELSE Raise(done, "ToolError")

RECURSIVE LogActions(_, _)
LogActions(S, acts) ==
    IF acts = <<>> THEN S
    ELSE LogActions(Log(S, Ev("register", Head(acts).t, Head(acts).a)), Tail(acts))

\* _register_actions
RegisterActions(S, a) ==
    LET pl == S.pipelines[a.p]
        acts == ActionsOf(S.tools, pl.tools)
        RegRaises(act) == ToolClass[S.tools[act.t].cls].registerRaises
        bad == First(acts, RegRaises)
        tried == IF bad = 0 THEN acts ELSE Prefix(acts, bad)
        kept == IF bad = 0 THEN acts ELSE Prefix(acts, bad - 1)
        done == [LogActions(S, tried) EXCEPT
                    !.handles[pl.mcp].registered = @ \o kept]
    IN IF bad = 0 THEN done ELSE Raise(done, "RegistrationError")

\* self._built = True
MarkBuilt(S, a) ==
    [Log(S, Ev("mark_built", 0, 0)) EXCEPT !.pipelines[a.p].built = TRUE]

(***************************************************************************)
(* Generators.  The host files a generator writes are the file at the      *)
(* save path and the Claude Desktop configuration file; a file is a state  *)
(* ("nodir": its directory is missing, "absent", "valid", "malformed": not *)
(* JSON) and, when valid, its mcpServers section as a map from server name *)
(* to entry.  An entry keeps the command and the env map.                  *)
(***************************************************************************)
ConfigPathKey == "MCPSTACK_CONFIG_PATH"
NoPath == ""
SavePath == "mcp.json"
ClaudePath == "claude_desktop_config.json"
HostPaths == {SavePath, ClaudePath}
ServerName == "mcpstack"

NoServers == [n \in {} |-> Absent]
HostFile(state, servers) == [state |-> state, servers |-> servers]
NoHost ==
    [f \in HostPaths |-> HostFile(IF f = ClaudePath THEN "nodir" ELSE "absent", NoServers)]

Entry(command, env) == [command |-> command, env |-> env]
Servers(entry) == [n \in {ServerName} |-> entry]

\* env[MCPSTACK_CONFIG_PATH] set only when the configuration has no such key
EntryEnvNoOverrides(env_vars, pcp) ==
    IF pcp # NoPath /\ ConfigPathKey \notin DOMAIN env_vars
    THEN Overlay(env_vars, [k \in {ConfigPathKey} |-> pcp])
    ELSE env_vars

\* env = env_vars.copy(); if pipeline_config_path: env[MCPSTACK_CONFIG_PATH] = ...
EntryEnv(env_vars, pcp) ==
    IF pcp # NoPath THEN Overlay(env_vars, [k \in {ConfigPathKey} |-> pcp]) ELSE env_vars

\* the file's servers replaced by the new ones
Replaced(existing, new) == new

\* existing.setdefault("mcpServers", {}).update(config["mcpServers"])
Merged(existing, new) == Overlay(existing, new)

\* json.dump(config, open(path, "w"))
Written(S, path, servers) == [S EXCEPT !.hostfs[path] = HostFile("valid", servers)]

\* the mcpServers section json.load gives, {} for a file that does not exist
Existing(host) == IF host.state = "valid" THEN host.servers ELSE NoServers

\* ClaudeConfigGenerator.generate
ClaudeGenerate(S, a) ==
    LET cfg == configs[S.pipelines[a.p].config]
        config == Servers(Entry("python", EntryEnv(cfg.env_vars, a.pcp)))
        host == S.hostfs[ClaudePath]
        R == [S EXCEPT !.val = <<config>>]
    IN IF ~a.genOk THEN Raise(S, "ValidationError")
       ELSE IF a.save_path # NoPath THEN Written(R, a.save_path, config)
       ELSE IF host.state = "nodir" THEN R
       ELSE IF host.state = "malformed" THEN Raise(S, "JSONDecodeError")
       ELSE Written(R, ClaudePath, Merged(Existing(host), config))

\* DockerConfigGenerator.generate with the image and server names build() leaves default
DockerGenerated(S, a) ==
    Servers(Entry("docker", configs[S.pipelines[a.p].config].env_vars))

\* DockerConfigGenerator.save and _merge_with_existing_config
DockerSave(S, a, save_path) ==
    LET config == DockerGenerated(S, a)
        host == S.hostfs[ClaudePath]
    IN IF save_path # NoPath THEN Written(S, save_path, config)
       ELSE IF host.state = "nodir" THEN S
       ELSE Written(S, ClaudePath, Merged(Existing(host), config))

\* DockerMCPConfigGenerator.generate
DockerGenerate(S, a) ==
    LET config == DockerGenerated(S, a)
        returned == Servers(Entry("docker", EntryEnv(config[ServerName].env, a.pcp)))
    IN [DockerSave(S, a, a.save_path) EXCEPT !.val = <<returned>>]

\* ALL_MCP_CONFIG_GENERATORS
GeneratorOf == [fastmcp |-> "ClaudeConfigGenerator", docker |-> "DockerMCPConfigGenerator"]

\* _generate_config
GenerateConfig(S, a) ==
    IF a.fmt \notin Generators
    THEN [Raise(S, "ValidationError") EXCEPT !.msg = UnknownName(a.fmt, Generators)]
    ELSE LET D == [Log(S, Ev("generate", 0, 0)) EXCEPT
                      !.args = <<a.fmt, a.pcp, a.save_path>>]
         IN IF GeneratorOf[a.fmt] = "ClaudeConfigGenerator"
            THEN ClaudeGenerate(D, a)
            ELSE DockerGenerate(D, a)

Step(name, S, a) ==
    CASE name = "_validate" -> Validate(S, a)
      [] name = "_initialize_mcp" -> InitializeMcp(S, a)
      [] name = "_initialize_tools" -> InitializeTools(S, a)
      [] name = "_register_actions" -> RegisterActions(S, a)
      [] name = "_built = True" -> MarkBuilt(S, a)
      [] name = "_generate_config" -> GenerateConfig(S, a)

RECURSIVE RunSteps(_, _, _)
RunSteps(steps, S, a) ==
    IF steps = <<>> \/ S.out # "ok" THEN S
    ELSE LET T == Step(Head(steps), S, a)
         IN RunSteps(Tail(steps),
                     IF T.out # "ok" THEN [T EXCEPT !.at = Head(steps)] ELSE T, a)

\* build() registering the actions before it initializes the tools
BuildStepsRegisterFirst ==
    <<"_validate", "_initialize_mcp", "_register_actions", "_initialize_tools",
      "_built = True", "_generate_config">>

\* build() setting _built before the tools are initialized
BuildStepsMarkFirst ==
    <<"_validate", "_initialize_mcp", "_built = True", "_initialize_tools",
      "_register_actions", "_generate_config">>

\* build() dispatching to the generator before anything else
BuildStepsGenerateFirst ==
    <<"_generate_config", "_validate", "_initialize_mcp", "_initialize_tools",
      "_register_actions", "_built = True">>

\* The statements of build(), in the order of the source.
BuildSteps ==
    <<"_validate", "_initialize_mcp", "_initialize_tools", "_register_actions",
      "_built = True", "_generate_config">>

Local == [pipelines |-> pipelines, tools |-> tools, handles |-> handles,
          hostfs |-> hostfs, trace |-> <<>>, out |-> "ok", at |-> "",
          msg |-> NoMessage, args |-> <<>>, val |-> <<>>]

BuildResult(a) == RunSteps(BuildSteps, Local, a)

(***************************************************************************)
(* run(): the serve call, then the teardown pass of its finally clause.    *)
(***************************************************************************)
RECURSIVE BackendsFrom(_, _, _)
BackendsFrom(tl, ts, i) ==
    IF i > Len(ts) THEN <<>>
    ELSE [b \in 1..Len(ToolClass[tl[ts[i]].cls].backends) |-> [t |-> ts[i], b |-> b]]
         \o BackendsFrom(tl, ts, i + 1)

\* for tool in self.tools: for backend in tool.backends.values()
BackendsOf(tl, ts) == BackendsFrom(tl, ts, 1)

BackendSpec(tl, c) == ToolClass[tl[c.t].cls].backends[c.b]

\* the teardown loop without its except clause
TeardownErrorPropagates(R) == R

\* try: backend.teardown()  except Exception: pass
TeardownErrorCaught(R) == [R EXCEPT !.escaped = FALSE]

RECURSIVE TeardownFrom(_, _, _)
TeardownFrom(R, calls, i) ==
    IF i > Len(calls) \/ R.escaped THEN R
    ELSE LET c == calls[i]
             bk == BackendSpec(R.tools, c)
             called == [R EXCEPT !.tools[c.t].bdowns[c.b] = @ + 1,
                                 !.trace = Append(@, Ev("backend_teardown", c.t, c.b))]
         IN IF ~bk.hasTeardown THEN TeardownFrom(R, calls, i + 1)
            ELSE IF bk.raises
                 THEN TeardownFrom(TeardownErrorCaught([called EXCEPT !.escaped = TRUE]),
                                   calls, i + 1)
                 ELSE TeardownFrom(called, calls, i + 1)

\* _teardown_tools
TeardownTools(tl, ts, trace) ==
    TeardownFrom([tools |-> tl, trace |-> trace, escaped |-> FALSE],
                 BackendsOf(tl, ts), 1)

\* run() tearing down after the serve call only when it returned
TeardownOnReturn(tl, ts, trace, raised) ==
    IF raised THEN [tools |-> tl, trace |-> trace, escaped |-> FALSE]
    ELSE TeardownTools(tl, ts, trace)

\* try: self.mcp.run()  finally: self._teardown_tools()
\* `raised` tells whether the serve call raised; the teardown pass runs either way.
Finally(tl, ts, trace, raised) == TeardownTools(tl, ts, trace)

\* The exception that leaves run(): one raised inside the finally clause
\* replaces the one that was propagating.
RunOutcome(R, raised) ==
    IF R.escaped THEN "TeardownError" ELSE IF raised THEN "ServeError" ELSE "ok"

\* run() without its first check
RunNeverRejected(pl) == FALSE

\* if not self._built: raise MCPStackBuildError
RunRejected(pl) == ~pl.built

SaveRejected(pl) == ~pl.built

(***************************************************************************)
(* The persisted pipeline document.                                        *)
(***************************************************************************)
Paths == {"pipeline.json"}
NoFile == [exists |-> FALSE, config |-> [log_level |-> "", env_vars |-> NoEnv], tools |-> <<>>]

\* the data dict of save(), as json.dump writes it
Document(pl) ==
    [exists |-> TRUE,
     config |-> ConfigToDict(configs[pl.config]),
     tools |-> [i \in 1..Len(pl.tools) |->
                  [type |-> to_snake_case(ToolClass[tools[pl.tools[i]].cls].name),
                   params |-> tools[pl.tools[i]].params]]]

\* What the pipeline was when save() wrote it (kept beside the file to state
\* the round trip; the program does not read it).
Snapshot(pl) ==
    [classes |-> [i \in 1..Len(pl.tools) |-> tools[pl.tools[i]].cls],
     params |-> [i \in 1..Len(pl.tools) |-> tools[pl.tools[i]].params],
     log_level |-> configs[pl.config].log_level,
     env_vars |-> configs[pl.config].env_vars]

NoSnapshot == [classes |-> <<>>, params |-> <<>>, log_level |-> "<none>", env_vars |-> NoEnv]

\* from_dict ignoring the document's log_level
ConfigFromDictDefaultLevel(d) == NewConfig("INFO", d.env_vars)

\* StackConfig.from_dict
ConfigFromDict(d) == NewConfig(d.log_level, d.env_vars)

\* tool_cls.from_dict(tool_data["params"])
ToolFromEntry(entry) == NewTool(RegistryClass(entry.type), entry.params)

\* the tools load() appends, in the order it appends them
LoadedTools(doc) == [i \in 1..Len(doc.tools) |-> ToolFromEntry(doc.tools[i])]

\* BaseTool.post_load on each of the tools `called`: _post_load, then initialize
PostLoaded(tl, called) ==
    [t \in DOMAIN tl |-> [tl[t] EXCEPT !.postLoads = @ + Count(called, t),
                                       !.inits = @ + Count(called, t)]]

\* post_load() calling initialize() before the tool's own hook
RECURSIVE LogPostLoadsInitFirst(_, _)
LogPostLoadsInitFirst(trace, ts) ==
    IF ts = <<>> THEN trace
    ELSE LogPostLoadsInitFirst(
            trace \o <<Ev("initialize", Head(ts), 0), Ev("post_load", Head(ts), 0)>>,
            Tail(ts))

\* BaseTool.post_load on each tool of ts: self._post_load(), then self.initialize()
RECURSIVE LogPostLoads(_, _)
LogPostLoads(trace, ts) ==
    IF ts = <<>> THEN trace
    ELSE LogPostLoads(trace \o <<Ev("post_load", Head(ts), 0), Ev("initialize", Head(ts), 0)>>,
                      Tail(ts))

(***************************************************************************)
(* load().  As build(), a sequence of statements run on a local state      *)
(* L = [doc, config, environ, tools, ids, mcp, built, trace, out, at]:     *)
(* the document read, the configuration object made from it, the process   *)
(* environment after StackConfig.__init__ applied it, the tool heap with   *)
(* the reconstructed tools, and the pipeline under construction (its tool  *)
(* identities, handle and built flag).                                     *)
(***************************************************************************)
\* config = StackConfig.from_dict(data["config"]); instance = cls(config=config)
LoadLocal(doc) ==
    [doc |-> doc, config |-> ConfigFromDict(doc.config),
     environ |-> Overlay(environ, doc.config.env_vars),
     tools |-> tools, ids |-> <<>>, mcp |-> None, built |-> FALSE,
     trace |-> <<>>, out |-> "ok", at |-> ""]

\* the positions 1..n of a list, as the events of its loop
Appends(n) == [i \in 1..n |-> Ev("append", Len(tools) + i, i)]

\* the loop of load() passing over the entries whose type is not registered
AppendLoadedSkipUnknown(L) ==
    LET known == SelectSeq(L.doc.tools, LAMBDA entry : InRegistry(entry.type))
    IN [L EXCEPT !.tools = @ \o [i \in 1..Len(known) |-> ToolFromEntry(known[i])],
                 !.ids = Fresh(Len(known)),
                 !.trace = @ \o Appends(Len(known))]

\* for tool_data in data.get("tools", []): ... instance = instance.with_tool(tool)
AppendLoaded(L) ==
    LET Unknown(entry) == ~InRegistry(entry.type)
        bad == First(L.doc.tools, Unknown)
    IN IF bad # 0
       THEN [L EXCEPT !.trace = @ \o Appends(bad - 1), !.out = "ValidationError"]
       ELSE [L EXCEPT !.tools = @ \o LoadedTools(L.doc),
                      !.ids = Fresh(Len(L.doc.tools)),
                      !.trace = @ \o Appends(Len(L.doc.tools))]

\* config.validate_for_tools on the reconstructed tools (no statement of load())
ValidateLoaded(L) ==
    IF ValidationErrors(L.config, L.environ, L.tools, L.ids) # {}
    THEN [L EXCEPT !.trace = Append(@, Ev("validate_env", 0, 0)), !.out = "ConfigError"]
    ELSE [L EXCEPT !.trace = Append(@, Ev("validate_env", 0, 0))]

\* MCPStackCore._post_load
PostLoad(L) ==
    LET InitRaises(t) == ToolClass[L.tools[t].cls].initRaises
        bad == First(L.ids, InitRaises)
        called == IF bad = 0 THEN L.ids ELSE Prefix(L.ids, bad)
        acts == IF L.mcp # None THEN ActionsOf(L.tools, L.ids) ELSE <<>>
        hooked == [L EXCEPT !.tools = PostLoaded(@, called),
                            !.trace = LogPostLoads(@, called)]
    IN IF bad # 0 THEN [hooked EXCEPT !.out = "ToolError"]
       ELSE [hooked EXCEPT
                !.trace = @ \o [i \in 1..Len(acts) |-> Ev("register", acts[i].t, acts[i].a)]
                            \o <<Ev("mark_built", 0, 0)>>,
                !.built = TRUE]

\* instance._built = True
LoadMarkBuilt(L) == [L EXCEPT !.trace = Append(@, Ev("mark_built", 0, 0)), !.built = TRUE]

LoadStep(name, L) ==
    CASE name = "with_tool" -> AppendLoaded(L)
      [] name = "validate_for_tools" -> ValidateLoaded(L)
      [] name = "_post_load" -> PostLoad(L)
      [] name = "_built = True" -> LoadMarkBuilt(L)

RECURSIVE RunLoadSteps(_, _)
RunLoadSteps(steps, L) ==
    IF steps = <<>> \/ L.out # "ok" THEN L
    ELSE LET T == LoadStep(Head(steps), L)
         IN RunLoadSteps(Tail(steps),
                         IF T.out # "ok" THEN [T EXCEPT !.at = Head(steps)] ELSE T)

\* load() validating the environment of the tools it has reconstructed
LoadStepsValidating == <<"with_tool", "validate_for_tools", "_post_load", "_built = True">>

\* The statements of load() after the document is read, in the order of the source.
LoadSteps == <<"with_tool", "_post_load", "_built = True">>

LoadResult(doc) == RunLoadSteps(LoadSteps, LoadLocal(doc))

(***************************************************************************)
(* The record of the last operation.                                       *)
(***************************************************************************)
Outcome(op, p, out, trace, ret) ==
    [op |-> op, pid |-> p, out |-> out, trace |-> trace, ret |-> ret, at |-> "",
     path |-> "", args |-> <<>>, msg |-> NoMessage, val |-> <<>>]

(***************************************************************************)
(* Initial state: one pipeline as MCPStackCore(config, mcp) constructs it, *)
(* with or without a serving-runtime handle supplied by the caller.        *)
(***************************************************************************)
InitialConfigs ==
    {NewConfig("INFO", NoEnv), NewConfig("DEBUG", [k \in {"API_KEY"} |-> "secret"])}

Init ==
    \E cfg \in InitialConfigs, penv \in EnvMaps, supplied \in BOOLEAN :
        /\ supplied => cfg.env_vars # NoEnv
        /\ configs = <<cfg>>
        /\ environ = Overlay(penv, cfg.env_vars)
        /\ handles = IF supplied THEN <<NewHandle>> ELSE <<>>
        /\ pipelines = <<NewPipeline(1, IF supplied THEN 1 ELSE None, <<>>)>>
        /\ tools = <<>>
        /\ files = [f \in Paths |-> NoFile]
        /\ saved = [f \in Paths |-> NoSnapshot]
        /\ hostfs = NoHost
        /\ last = Outcome("new", 1, "ok", <<>>, 1)

(***************************************************************************)
(* with_tool, with_tools, with_preset                                      *)
(***************************************************************************)
Room(nPipelines, nTools) ==
    /\ Len(pipelines) + nPipelines <= MaxPipelines
    /\ Len(tools) + nTools <= MaxTools

Constructed(choices) == [i \in 1..Len(choices) |-> NewTool(choices[i].cls, choices[i].params)]

\* the receiver's list with the new tools at its front
Prepended(ts, new) == new \o ts

\* [*self.tools, tool]  /  self.tools + tools
Appended(ts, new) == ts \o new

\* with_tool appending to the receiver's own list, which the new pipeline shares
WithToolInPlace(p, choice) ==
    /\ Room(1, 1)
    /\ tools' = tools \o Constructed(<<choice>>)
    /\ pipelines' = Append([pipelines EXCEPT ![p].tools = Appended(@, Fresh(1))],
            NewPipeline(pipelines[p].config, pipelines[p].mcp,
                        Appended(pipelines[p].tools, Fresh(1))))
    /\ last' = [Outcome("with_tool", p, "ok", <<>>, Len(pipelines) + 1)
                    EXCEPT !.args = <<choice>>]
    /\ UNCHANGED <<configs, handles, environ, files, saved, hostfs>>

WithTool(p, choice) ==
    /\ Room(1, 1)
    /\ tools' = tools \o Constructed(<<choice>>)
    /\ pipelines' = Append(pipelines,
            NewPipeline(pipelines[p].config, pipelines[p].mcp,
                        Appended(pipelines[p].tools, Fresh(1))))
    /\ last' = [Outcome("with_tool", p, "ok", <<>>, Len(pipelines) + 1)
                    EXCEPT !.args = <<choice>>]
    /\ UNCHANGED <<configs, handles, environ, files, saved, hostfs>>

WithTools(p, choices) ==
    /\ Room(1, Len(choices))
    /\ tools' = tools \o Constructed(choices)
    /\ pipelines' = Append(pipelines,
            NewPipeline(pipelines[p].config, pipelines[p].mcp,
                        Appended(pipelines[p].tools, Fresh(Len(choices)))))
    /\ last' = [Outcome("with_tools", p, "ok", <<>>, Len(pipelines) + 1)
                    EXCEPT !.args = choices]
    /\ UNCHANGED <<configs, handles, environ, files, saved, hostfs>>

ALL_PRESETS == {"example_preset"}
PresetNames == ALL_PRESETS \cup {"unknown_preset", "example_prest"}

\* ExamplePreset.create: MCPStackCore(config).with_tool(HelloWorld())
ExamplePresetTools == <<[cls |-> "HelloWorld", params |-> "p1"]>>

\* with_preset called without a `config` keyword
NotGiven == -1

\* with_preset(name, config=opt).  opt is NotGiven, None or a configuration
\* object; the factory is handed kwargs.pop("config", self.config) and, for
\* None, makes a StackConfig() of its own; the new pipeline takes the
\* configuration of the pipeline the factory returned.
WithPreset(p, name, opt) ==
    LET given == IF opt = NotGiven THEN pipelines[p].config ELSE opt
        config == IF given = None THEN Len(configs) + 1 ELSE given
    IN IF name \notin ALL_PRESETS
       THEN /\ last' = [Outcome("with_preset", p, "PresetError", <<>>, None)
                            EXCEPT !.args = <<name, opt>>,
                                   !.msg = UnknownName(name, ALL_PRESETS)]
            /\ UNCHANGED <<pipelines, tools, configs, handles, environ, files, saved, hostfs>>
       ELSE /\ Room(1, Len(ExamplePresetTools))
            /\ given = None => Len(configs) < MaxConfigs
            /\ configs' = IF given = None THEN Append(configs, NewConfig("INFO", NoEnv))
                                           ELSE configs
            /\ tools' = tools \o Constructed(ExamplePresetTools)
            /\ pipelines' = Append(pipelines,
                   NewPipeline(config, pipelines[p].mcp,
                               Appended(pipelines[p].tools, Fresh(Len(ExamplePresetTools)))))
            /\ last' = [Outcome("with_preset", p, "ok", <<>>, Len(pipelines) + 1)
                            EXCEPT !.args = <<name, opt>>]
            /\ UNCHANGED <<handles, environ, files, saved, hostfs>>

(***************************************************************************)
(* The calls made so far that the model counts against MaxCalls.           *)
(***************************************************************************)
RECURSIVE SumOver(_, _, _)
SumOver(s, F(_), i) == IF i > Len(s) THEN 0 ELSE F(s[i]) + SumOver(s, F, i + 1)

CallsMade ==
    LET Inits(t) == t.inits - t.postLoads
        Serves(h) == h.serves
    IN SumOver(tools, Inits, 1) + SumOver(handles, Serves, 1)

(***************************************************************************)
(* build                                                                   *)
(***************************************************************************)
BuildCall(p, fmt, createOk, genOk, pcp, save_path) ==
    [p |-> p, fmt |-> fmt, createOk |-> createOk, genOk |-> genOk,
     pcp |-> pcp, save_path |-> save_path]

\* build(type, pipeline_config_path, save_path)
BuildWith(p, fmt, createOk, genOk, pcp, save_path) ==
    LET S == BuildResult(BuildCall(p, fmt, createOk, genOk, pcp, save_path))
    IN /\ CallsMade + Len(pipelines[p].tools) <= MaxCalls
       /\ pipelines[p].mcp = None => Len(handles) < MaxHandles
       /\ pipelines' = S.pipelines
       /\ tools' = S.tools
       /\ handles' = S.handles
       /\ hostfs' = S.hostfs
       /\ last' = [Outcome("build", p, S.out, S.trace, None) EXCEPT !.at = S.at,
                                                                    !.msg = S.msg,
                                                                    !.args = S.args,
                                                                    !.val = S.val]
       /\ UNCHANGED <<configs, environ, files, saved>>

\* build(type) with pipeline_config_path and save_path left at their default
Build(p, fmt, createOk, genOk) == BuildWith(p, fmt, createOk, genOk, NoPath, NoPath)

(***************************************************************************)
(* run                                                                     *)
(***************************************************************************)
\* run() without its second check
NoHandleIgnored(pl) == FALSE

\* if not self.mcp: raise MCPStackInitializationError
NoHandle(pl) == pl.mcp = None

Run(p, serveRaises) ==
    LET pl == pipelines[p]
        R == Finally(tools, pl.tools,
                     <<Ev("serve", IF serveRaises THEN 1 ELSE 0, pl.mcp)>>, serveRaises)
    IN IF RunRejected(pl)
       THEN /\ last' = Outcome("run", p, "BuildError", <<>>, None)
            /\ UNCHANGED <<pipelines, tools, configs, handles, environ, files, saved, hostfs>>
       ELSE IF NoHandle(pl)
       THEN /\ last' = Outcome("run", p, "InitializationError", <<>>, None)
            /\ UNCHANGED <<pipelines, tools, configs, handles, environ, files, saved, hostfs>>
       ELSE /\ CallsMade + 1 <= MaxCalls
            /\ handles' = [handles EXCEPT ![pl.mcp].serves = @ + 1]
            /\ tools' = R.tools
            /\ last' = Outcome("run", p, RunOutcome(R, serveRaises), R.trace, None)
            /\ UNCHANGED <<pipelines, configs, environ, files, saved, hostfs>>

(***************************************************************************)
(* save and load                                                           *)
(***************************************************************************)
Save(p, path) ==
    LET pl == pipelines[p]
    IN IF SaveRejected(pl)
       THEN /\ last' = [Outcome("save", p, "BuildError", <<>>, None) EXCEPT !.path = path]
            /\ UNCHANGED <<pipelines, tools, configs, handles, environ, files, saved, hostfs>>
       ELSE /\ files' = [files EXCEPT ![path] = Document(pl)]
            /\ saved' = [saved EXCEPT ![path] = Snapshot(pl)]
            /\ last' = [Outcome("save", p, "ok", <<Ev("write", 0, 0)>>, None)
                            EXCEPT !.path = path]
            /\ UNCHANGED <<pipelines, tools, configs, handles, environ, hostfs>>

Load(path) ==
    LET doc == files[path]
        L == LoadResult(doc)
    IN IF ~doc.exists
       THEN /\ last' = [Outcome("load", None, "FileNotFoundError", <<>>, None)
                            EXCEPT !.path = path]
            /\ UNCHANGED <<pipelines, tools, configs, handles, environ, files, saved, hostfs>>
       ELSE IF L.out # "ok"
       THEN \* the objects made so far are dropped with the exception
            /\ environ' = L.environ
            /\ last' = [Outcome("load", None, L.out, L.trace, None)
                            EXCEPT !.path = path, !.at = L.at]
            /\ UNCHANGED <<pipelines, tools, configs, handles, files, saved, hostfs>>
       ELSE /\ Room(1, Len(doc.tools))
            /\ Len(configs) < MaxConfigs
            /\ configs' = Append(configs, L.config)
            /\ environ' = L.environ
            /\ tools' = L.tools
            /\ pipelines' = Append(pipelines,
                    [NewPipeline(Len(configs) + 1, L.mcp, L.ids) EXCEPT !.built = L.built])
            /\ last' = [Outcome("load", None, "ok", L.trace, Len(pipelines) + 1)
                            EXCEPT !.path = path]
            /\ UNCHANGED <<handles, files, saved, hostfs>>

(***************************************************************************)
(* Next                                                                    *)
(***************************************************************************)
Pids == 1..Len(pipelines)

DoWithTool == \E p \in Pids, c \in ToolChoices : WithTool(p, c)

DoWithTools == \E p \in Pids, cs \in {<<>>} \cup (ToolChoices \X ToolChoices) :
                    WithTools(p, cs)

DoWithPreset == \E p \in Pids, name \in PresetNames : WithPreset(p, name, NotGiven)

DoWithPresetConfig ==
    \E p \in Pids, name \in PresetNames, opt \in {None} \cup (1..Len(configs)) :
        WithPreset(p, name, opt)

DoBuild == \E p \in Pids, fmt \in Formats, createOk \in BOOLEAN, genOk \in BOOLEAN :
                Build(p, fmt, createOk, genOk)

DoRun == \E p \in Pids, serveRaises \in BOOLEAN : Run(p, serveRaises)

DoSave == \E p \in Pids, path \in Paths : Save(p, path)

DoLoad == \E path \in Paths : Load(path)

\* A call rejected before it does anything (out of lifecycle order, unknown
\* preset, no such file) changes no object, so a run that goes on after it
\* visits the program states of the run without it: runs end at such a call.
Rejections == {"BuildError", "InitializationError", "PresetError", "FileNotFoundError"}

Rejected == last.out \in Rejections

Next ==
    /\ ~Rejected
    /\ (DoWithTool \/ DoWithTools \/ DoWithPreset \/ DoBuild \/ DoRun \/ DoSave \/ DoLoad)

Spec == Init /\ [][Next]_vars

(***************************************************************************)
(* StackConfig on its own: a caller that has constructed one StackConfig   *)
(* and some tools, and calls merge_env, get_env_var and validate_for_tools *)
(* on it.                                                                  *)
(***************************************************************************)
MergeKeys == {"API_KEY", "MY_API_KEY"}
Prefixes == {"", "MY_"}
MergeValues == {"secret", "other"}
Defaults == {Absent, "fallback"}

\* the dicts handed to merge_env: one or two items
NewEnvs ==
    {<<[key |-> k, value |-> v]>> : k \in MergeKeys, v \in MergeValues}
    \cup {<<[key |-> "API_KEY", value |-> v], [key |-> "MY_API_KEY", value |-> w]>> :
              v \in MergeValues, w \in MergeValues}

MergeEnv(c, new_env, prefix) ==
    LET M == merge_env(configs[c].env_vars, new_env, prefix)
    IN /\ configs' = [configs EXCEPT ![c].env_vars = M.env_vars]
       /\ last' = [Outcome("merge_env", None, M.out, <<>>, None)
                       EXCEPT !.args = <<new_env, prefix>>, !.val = M.conflict]
       /\ UNCHANGED <<pipelines, tools, handles, environ, files, saved, hostfs>>

GetEnvVar(c, key, default, raise_if_missing) ==
    LET raises == GetEnvRaises(configs[c], environ, key, default, raise_if_missing)
    IN /\ last' = [Outcome("get_env_var", None, IF raises THEN "ConfigError" ELSE "ok",
                               <<>>, None)
                       EXCEPT !.args = <<key, default, raise_if_missing>>,
                              !.val = IF raises THEN <<>>
                                      ELSE <<get_env_var(configs[c], environ, key, default)>>]
       /\ UNCHANGED <<pipelines, tools, configs, handles, environ, files, saved, hostfs>>

ValidateForTools(c) ==
    LET errors == validate_for_tools(configs[c], environ, tools, [i \in 1..Len(tools) |-> i])
    IN /\ last' = [Outcome("validate_for_tools", None,
                               IF errors # <<>> THEN "ConfigError" ELSE "ok", <<>>, None)
                       EXCEPT !.val = errors]
       /\ UNCHANGED <<pipelines, tools, configs, handles, environ, files, saved, hostfs>>

Cids == 1..Len(configs)

DoMergeEnv == \E c \in Cids, new_env \in NewEnvs, prefix \in Prefixes :
                  MergeEnv(c, new_env, prefix)

DoGetEnvVar == \E c \in Cids, key \in MergeKeys, default \in Defaults, r \in BOOLEAN :
                   GetEnvVar(c, key, default, r)

DoValidateForTools == \E c \in Cids : ValidateForTools(c)

ConfigInit ==
    \E env_vars \in UNION {[D -> MergeValues] : D \in SUBSET MergeKeys},
       penv \in UNION {[D -> MergeValues \cup {""}] : D \in SUBSET Keys},
       choices \in UNION {[1..n -> ToolChoices] : n \in 0..MaxTools} :
        /\ configs = <<NewConfig("INFO", env_vars)>>
        /\ environ = Overlay(penv, env_vars)
        /\ handles = <<>>
        /\ pipelines = <<>>
        /\ tools = Constructed(choices)
        /\ files = [f \in Paths |-> NoFile]
        /\ saved = [f \in Paths |-> NoSnapshot]
        /\ hostfs = NoHost
        /\ last = Outcome("start", None, "ok", <<>>, None)

ConfigNext == DoMergeEnv \/ DoGetEnvVar \/ DoValidateForTools

ConfigSpec == ConfigInit /\ [][ConfigNext]_vars

(***************************************************************************)
(* A process that starts with a pipeline document already on disk, written *)
(* by an earlier process (or by hand): server.main and the CLI begin this  *)
(* way.  The document's tool entries are what save() writes for the tool   *)
(* classes, which for DBTool is a type the registry does not know.         *)
(***************************************************************************)
DocEntries ==
    {[type |-> to_snake_case(ToolClass[c.cls].name), params |-> c.params] : c \in ToolChoices}

Documents ==
    {[exists |-> TRUE, config |-> ConfigToDict(c), tools |-> t] :
        c \in InitialConfigs, t \in UNION {[1..n -> DocEntries] : n \in 0..MaxTools}}

(***************************************************************************)
(* A tool's own teardown(), called on tool objects as they are constructed. *)
(***************************************************************************)
MaxTeardowns == 2

\* for backend in self.backends.values(): try: backend.teardown() except: log
RECURSIVE TeardownBackends(_, _, _)
TeardownBackends(R, calls, i) ==
    IF i > Len(calls) THEN R
    ELSE LET c == calls[i]
             called == [R EXCEPT !.tools[c.t].bdowns[c.b] = @ + 1,
                                 !.trace = Append(@, Ev("backend_teardown", c.t, c.b))]
         IN IF BackendSpec(R.tools, c).hasTeardown
            THEN TeardownBackends(called, calls, i + 1)
            ELSE TeardownBackends(R, calls, i + 1)

\* BaseTool.teardown: self._teardown() is called outside the try, so what it
\* raises leaves teardown() before the loop over the backends starts.
ToolTeardown(t) ==
    LET start == [tools |-> [tools EXCEPT ![t].teardowns = @ + 1],
                  trace |-> <<Ev("_teardown", t, 0)>>]
        raised == ToolClass[tools[t].cls].teardownRaises
        R == IF raised THEN start ELSE TeardownBackends(start, BackendsOf(tools, <<t>>), 1)
    IN /\ tools[t].teardowns < MaxTeardowns
       /\ tools' = R.tools
       /\ last' = Outcome("teardown", None, IF raised THEN "TeardownError" ELSE "ok",
                          R.trace, t)
       /\ UNCHANGED <<pipelines, configs, handles, environ, files, saved, hostfs>>

DoToolTeardown == \E t \in 1..Len(tools) : ToolTeardown(t)

ToolInit ==
    \E choices \in UNION {[1..n -> ToolChoices] : n \in 0..MaxTools} :
        /\ configs = <<NewConfig("INFO", NoEnv)>>
        /\ environ = NoEnv
        /\ handles = <<>>
        /\ pipelines = <<>>
        /\ tools = Constructed(choices)
        /\ files = [f \in Paths |-> NoFile]
        /\ saved = [f \in Paths |-> NoSnapshot]
        /\ hostfs = NoHost
        /\ last = Outcome("start", None, "ok", <<>>, None)

ToolNext == DoToolTeardown

ToolSpec == ToolInit /\ [][ToolNext]_vars

(***************************************************************************)
(* Composition: a caller that has constructed one or two StackConfig       *)
(* objects and a pipeline on the first, and composes and builds.           *)
(***************************************************************************)
RECURSIVE Applied(_, _)
\* the process environment after StackConfig.__init__ of each of cfgs
Applied(env, cfgs) ==
    IF cfgs = <<>> THEN env ELSE Applied(Overlay(env, Head(cfgs).env_vars), Tail(cfgs))

ComposeInit ==
    \E cfgs \in {<<NewConfig("INFO", NoEnv)>>,
                  <<NewConfig("INFO", NoEnv), NewConfig("DEBUG", [k \in {"API_KEY"} |-> "secret"])>>},
       penv \in EnvMaps, supplied \in BOOLEAN :
        /\ configs = cfgs
        /\ environ = Applied(penv, cfgs)
        /\ handles = IF supplied THEN <<NewHandle>> ELSE <<>>
        /\ pipelines = <<NewPipeline(1, IF supplied THEN 1 ELSE None, <<>>)>>
        /\ tools = <<>>
        /\ files = [f \in Paths |-> NoFile]
        /\ saved = [f \in Paths |-> NoSnapshot]
        /\ hostfs = NoHost
        /\ last = Outcome("new", 1, "ok", <<>>, 1)

ComposeNext ==
    /\ ~Rejected
    /\ (DoWithTool \/ DoWithTools \/ DoWithPreset \/ DoWithPresetConfig \/ DoBuild)

ComposeSpec == ComposeInit /\ [][ComposeNext]_vars

LoadInit ==
    \E doc \in Documents, penv \in EnvMaps :
        /\ configs = <<>>
        /\ environ = penv
        /\ handles = <<>>
        /\ pipelines = <<>>
        /\ tools = <<>>
        /\ files = [f \in Paths |-> doc]
        /\ saved = [f \in Paths |-> NoSnapshot]
        /\ hostfs = NoHost
        /\ last = Outcome("start", None, "ok", <<>>, None)

LoadNext == ~Rejected /\ (DoLoad \/ DoBuild \/ DoRun \/ DoSave)

LoadSpec == LoadInit /\ [][LoadNext]_vars

(***************************************************************************)
(* Construction: a process that constructs StackConfig objects one after   *)
(* the other and queries them.  The log levels are the valid ones.         *)
(***************************************************************************)
\* StackConfig(log_level, env_vars): __init__ and the loop of _apply_config
NewStackConfig(log_level, env_vars) ==
    /\ Len(configs) < MaxConfigs
    /\ configs' = Append(configs, NewConfig(log_level, env_vars))
    /\ environ' = Overlay(environ, env_vars)
    /\ last' = [Outcome("StackConfig", None, "ok", <<>>, Len(configs) + 1)
                    EXCEPT !.args = <<log_level, env_vars>>]
    /\ UNCHANGED <<pipelines, tools, handles, files, saved, hostfs>>

DoNewStackConfig ==
    \E log_level \in LogLevels, env_vars \in UNION {[D -> MergeValues] : D \in SUBSET Keys} :
        NewStackConfig(log_level, env_vars)

EnvInit ==
    \E penv \in UNION {[D -> MergeValues] : D \in SUBSET Keys},
       choices \in UNION {[1..n -> ToolChoices] : n \in 0..MaxTools} :
        /\ configs = <<>>
        /\ environ = penv
        /\ handles = <<>>
        /\ pipelines = <<>>
        /\ tools = Constructed(choices)
        /\ files = [f \in Paths |-> NoFile]
        /\ saved = [f \in Paths |-> NoSnapshot]
        /\ hostfs = NoHost
        /\ last = Outcome("start", None, "ok", <<>>, None)

EnvNext == DoNewStackConfig \/ DoGetEnvVar \/ DoValidateForTools

EnvSpec == EnvInit /\ [][EnvNext]_vars

(***************************************************************************)
(* Generation: a caller that composes a pipeline and builds it with a      *)
(* pipeline config path and a save path, on a host whose Claude Desktop    *)
(* configuration file is in one of the states a host can have it in.  The  *)
(* configuration's overrides may hold MCPSTACK_CONFIG_PATH, as they do     *)
(* when they are a copy of the process environment.                        *)
(***************************************************************************)
PipelineConfigPaths == {NoPath, "pipeline.json"}
SavePaths == {NoPath, SavePath}

GenEnvMaps ==
    {Overlay(a, b) : a \in {NoEnv, [k \in {"API_KEY"} |-> "secret"]},
                     b \in {NoEnv, [k \in {ConfigPathKey} |-> "old.json"]}}

\* an entry another program keeps in the host file, and the entry an earlier
\* generation left under the server name
OtherServers == [n \in {"other"} |-> Entry("node", NoEnv)]
OldServers == Servers(Entry("python", [k \in {"API_KEY"} |-> "stale"]))

ClaudeFiles ==
    {HostFile(st, NoServers) : st \in {"nodir", "absent", "malformed"}}
    \cup {HostFile("valid", OtherServers), HostFile("valid", Overlay(OtherServers, OldServers))}

\* the tools composed here are those whose hooks return
GenToolClasses == {"HelloWorld", "ApiTool"}

DoWithGenTool ==
    \E p \in Pids, c \in {d \in ToolChoices : d.cls \in GenToolClasses} : WithTool(p, c)

\* build() of a pipeline not built before, where the serving runtime can be
\* constructed
DoBuildWith ==
    \E p \in Pids, fmt \in Generators \cup {"bogus"}, genOk \in BOOLEAN,
       pcp \in PipelineConfigPaths, save_path \in SavePaths :
        ~pipelines[p].built /\ BuildWith(p, fmt, TRUE, genOk, pcp, save_path)

GenInit ==
    \E env_vars \in GenEnvMaps, claude \in ClaudeFiles :
        /\ configs = <<NewConfig("INFO", env_vars)>>
        /\ environ = env_vars
        /\ handles = <<>>
        /\ pipelines = <<NewPipeline(1, None, <<>>)>>
        /\ tools = <<>>
        /\ files = [f \in Paths |-> NoFile]
        /\ saved = [f \in Paths |-> NoSnapshot]
        /\ hostfs = [NoHost EXCEPT ![ClaudePath] = claude]
        /\ last = Outcome("new", 1, "ok", <<>>, 1)

GenNext == DoWithGenTool \/ DoBuildWith

GenSpec == GenInit /\ [][GenNext]_vars

(***************************************************************************)
(* Properties.                                                             *)
(***************************************************************************)
Core == <<pipelines, tools, configs, handles, environ, files, saved, hostfs>>

Where(tr, e) == {i \in 1..Len(tr) : tr[i].e = e}

Position(s, v) == CHOOSE i \in 1..Len(s) : s[i] = v

Served(l) == l.op = "run" /\ l.out \in {"ok", "ServeError"}

\* C1: a successful build() checks the tools, validates the environment,
\* creates the runtime handle only if the pipeline has none (a handle it has
\* is kept), initializes every tool in tool order, then registers every
\* tool's actions in tool order, then marks the pipeline Built, and only
\* then calls the generator.
C1_BuildOrder ==
    [][(last'.op = "build" /\ last'.out = "ok") =>
        LET p == last'.pid
            tr == last'.trace
            ts == pipelines[p].tools
            had == pipelines[p].mcp # None
            h == pipelines'[p].mcp
            inits == SelectSeq(tr, LAMBDA x : x.e = "initialize")
            regs == SelectSeq(tr, LAMBDA x : x.e = "register")
            before == IF had THEN 2 ELSE 3
        IN /\ tr[1].e = "check_tools" /\ tr[2].e = "validate_env"
           /\ had => /\ h = pipelines[p].mcp
                     /\ Len(handles') = Len(handles)
                     /\ Where(tr, "create_handle") = {}
           /\ ~had => /\ Where(tr, "create_handle") = {3}
                      /\ h = Len(handles) + 1
                      /\ Len(handles') = Len(handles) + 1
           /\ [i \in 1..Len(inits) |-> inits[i].t] = ts
           /\ Where(tr, "initialize") = (before + 1)..(before + Len(ts))
           /\ \A i \in 1..Len(ts) :
                 Cardinality({j \in 1..Len(regs) : regs[j].t = ts[i]})
                    = ToolClass[tools[ts[i]].cls].nActions
           /\ \A i, j \in 1..Len(regs) :
                 i < j => Position(ts, regs[i].t) <= Position(ts, regs[j].t)
           /\ Where(tr, "register") = (before + Len(ts) + 1)..(Len(tr) - 2)
           /\ Where(tr, "mark_built") = {Len(tr) - 1}
           /\ Where(tr, "generate") = {Len(tr)}
           /\ Len(handles'[h].registered) =
                 (IF had THEN Len(handles[h].registered) ELSE 0) + Len(regs)
           /\ \A i \in 1..Len(ts) : tools'[ts[i]].inits = tools[ts[i]].inits + 1
           /\ pipelines'[p].built
    ]_vars

\* a build of two tools succeeded on a pipeline that already had its handle
C1_Witness ==
    /\ last.op = "build" /\ last.out = "ok"
    /\ Len(pipelines[last.pid].tools) = 2
    /\ Where(last.trace, "create_handle") = {}
    /\ Cardinality(Where(last.trace, "register")) = 3

\* C2: run() and save() on a pipeline that is not Built fail with BuildError
\* and change nothing: no serve call, no teardown, no file written, and
\* every pipeline, tool, configuration and handle stays as it was.
C2_NotBuiltRejected ==
    [][(last'.op \in {"run", "save"} /\ ~pipelines[last'.pid].built) =>
        /\ last'.out = "BuildError"
        /\ last'.trace = <<>>
        /\ UNCHANGED Core
    ]_vars

\* run() was rejected on a pipeline that has tools but was never built
C2_Witness ==
    /\ last.op = "run" /\ last.out = "BuildError"
    /\ pipelines[last.pid].tools # <<>>

\* C3: build() on a pipeline with no tools fails with ValidationError whatever
\* the configuration and the format, and fails first: nothing but the
\* empty-tool check has run and nothing has changed.
C3_EmptyBuildFails ==
    [][(last'.op = "build" /\ pipelines[last'.pid].tools = <<>>) =>
        /\ last'.out = "ValidationError"
        /\ last'.at = "_validate"
        /\ last'.trace = <<Ev("check_tools", 0, 0)>>
        /\ UNCHANGED Core
        /\ ~pipelines'[last'.pid].built
    ]_vars

\* build() failed on an empty pipeline whose configuration has an environment map
C3_Witness ==
    /\ last.op = "build" /\ last.out = "ValidationError"
    /\ pipelines[last.pid].tools = <<>>
    /\ configs[pipelines[last.pid].config].env_vars # NoEnv

StepsAtoE == {"_validate", "_initialize_mcp", "_initialize_tools", "_register_actions"}

\* C4: a build() of an Unbuilt pipeline that fails in steps (a) to (e) leaves
\* it Unbuilt, and a run() or save() that follows on it fails with BuildError.
C4_FailedBuildStaysUnbuilt ==
    [][/\ (last'.op = "build" /\ last'.at \in StepsAtoE /\ ~pipelines[last'.pid].built)
            => ~pipelines'[last'.pid].built
       /\ (/\ last.op = "build" /\ last.at \in StepsAtoE /\ ~pipelines[last.pid].built
           /\ last'.op \in {"run", "save"} /\ last'.pid = last.pid)
            => last'.out = "BuildError"
    ]_vars

\* a tool's initialize() raised during build(), after the handle was created
C4_Witness ==
    /\ last.op = "build" /\ last.at = "_initialize_tools"
    /\ Where(last.trace, "create_handle") # {}
    /\ ~pipelines[last.pid].built

\* C5: build() is accepted only on an Unbuilt pipeline: on a Built one it is
\* rejected and runs neither initialize() nor the registration again.
C5_BuildOnlyFromUnbuilt ==
    [][(last'.op = "build" /\ pipelines[last'.pid].built) =>
        /\ last'.out # "ok"
        /\ Where(last'.trace, "initialize") = {}
        /\ Where(last'.trace, "register") = {}
    ]_vars

HasTeardown(tl, c) == BackendSpec(tl, c).hasTeardown

\* C6: run() on a Built pipeline with a handle makes one serve call and then,
\* whether it returned or raised, calls teardown() once on every backend of
\* every tool; what leaves run() is what the serve call did.
C6_RunServesThenTearsDown ==
    [][(last'.op = "run" /\ pipelines[last'.pid].built /\ pipelines[last'.pid].mcp # None) =>
        LET pl == pipelines[last'.pid]
            tr == last'.trace
        IN /\ Where(tr, "serve") = {1}
           /\ tr[1].x = pl.mcp
           /\ handles'[pl.mcp].serves = handles[pl.mcp].serves + 1
           /\ \A i \in 1..Len(pl.tools) :
                \A b \in 1..Len(ToolClass[tools[pl.tools[i]].cls].backends) :
                    ToolClass[tools[pl.tools[i]].cls].backends[b].hasTeardown =>
                        /\ tools'[pl.tools[i]].bdowns[b] = tools[pl.tools[i]].bdowns[b] + 1
                        /\ \E j \in 2..Len(tr) : tr[j] = Ev("backend_teardown", pl.tools[i], b)
           /\ last'.out = (IF tr[1].t = 1 THEN "ServeError" ELSE "ok")
    ]_vars

\* the serve call raised and a backend of the pipeline's tool was torn down
C6_Witness ==
    /\ last.op = "run" /\ last.out = "ServeError"
    /\ \E i \in 1..Len(pipelines[last.pid].tools) :
          \E b \in DOMAIN tools[pipelines[last.pid].tools[i]].bdowns :
              tools[pipelines[last.pid].tools[i]].bdowns[b] = 1

\* C7: once run() has ended on a pipeline (TornDown), a further run() on it
\* is rejected.
C7_RunOnlyOnce ==
    [][(Served(last) /\ last'.op = "run" /\ last'.pid = last.pid) => ~Served(last')]_vars

\* C8: a backend whose teardown() raises stops nothing: the teardown calls of
\* the pass are those of every backend that has the hook, in tool order, and
\* run() ends as the serve call ended.
C8_TeardownErrorsSwallowed ==
    [][(last'.op = "run" /\ pipelines[last'.pid].built /\ pipelines[last'.pid].mcp # None) =>
        LET pl == pipelines[last'.pid]
            tr == last'.trace
            downs == SelectSeq(tr, LAMBDA x : x.e = "backend_teardown")
            hooked == SelectSeq(BackendsOf(tools, pl.tools), LAMBDA c : HasTeardown(tools, c))
        IN /\ [i \in 1..Len(downs) |-> [t |-> downs[i].t, b |-> downs[i].x]] = hooked
           /\ last'.out # "TeardownError"
           /\ (last'.out = "ok") = (tr[1].t = 0)
    ]_vars

\* the first tool's first backend raised in teardown(), the second tool's
\* backend was torn down all the same, and run() returned normally
C8_Witness ==
    /\ last.op = "run" /\ last.out = "ok"
    /\ Len(pipelines[last.pid].tools) = 2
    /\ Len(ToolClass[tools[pipelines[last.pid].tools[1]].cls].backends) > 0
    /\ ToolClass[tools[pipelines[last.pid].tools[1]].cls].backends[1].raises
    /\ \E i \in 1..Len(last.trace) :
          /\ last.trace[i].e = "backend_teardown"
          /\ last.trace[i].t = pipelines[last.pid].tools[2]

\* C9: when a pipeline serves, initialize() has been called exactly once on
\* each of its tools.
C9_InitializeOnce ==
    Served(last) => \A i \in 1..Len(pipelines[last.pid].tools) :
                        tools[pipelines[last.pid].tools[i]].inits = 1

\* save() writes each tool under an identifier the registry maps back to its class
RegisteredAsSaved(snap) ==
    \A i \in 1..Len(snap.classes) :
        /\ InRegistry(to_snake_case(ToolClass[snap.classes[i]].name))
        /\ RegistryClass(to_snake_case(ToolClass[snap.classes[i]].name)) = snap.classes[i]

Loadable(doc) ==
    \A i \in 1..Len(doc.tools) :
        /\ InRegistry(doc.tools[i].type)
        /\ ~ToolClass[RegistryClass(doc.tools[i].type)].initRaises

\* a tool of the pipeline declares a variable with no default that is in
\* neither the pipeline's override map nor the process environment
Unresolved(pl) ==
    \E i \in 1..Len(pl.tools) :
        \E k \in DOMAIN ToolClass[tools[pl.tools[i]].cls].required_env_vars :
            /\ ToolClass[tools[pl.tools[i]].cls].required_env_vars[k] = Absent
            /\ k \notin DOMAIN configs[pl.config].env_vars
            /\ k \notin DOMAIN environ

\* C11: load() validates no environment: it returns a Built pipeline for
\* every document whose tools are registered (and whose hooks return), also
\* when a required variable without default resolves nowhere; build() on
\* such a pipeline fails with ConfigError.
C11_LoadDoesNotValidate ==
    [][/\ (last'.op = "load" /\ files[last'.path].exists /\ Loadable(files[last'.path])) =>
            /\ last'.out = "ok"
            /\ pipelines'[last'.ret].built
            /\ Where(last'.trace, "validate_env") = {}
       /\ (last'.op = "build" /\ pipelines[last'.pid].tools # <<>>
                              /\ Unresolved(pipelines[last'.pid])) =>
            last'.out = "ConfigError"
    ]_vars

\* a pipeline that load() returned Built, with a tool whose required variable
\* resolves nowhere, has just been refused by build() with ConfigError
C11_Witness ==
    /\ last.op = "build" /\ last.out = "ConfigError"
    /\ pipelines[last.pid].built
    /\ Unresolved(pipelines[last.pid])
    /\ \A i \in 1..Len(pipelines[last.pid].tools) :
          tools[pipelines[last.pid].tools[i]].postLoads = 1

\* C12: load() first appends every reconstructed tool, then calls
\* post_load() once per tool in document order, each running the tool's own
\* hook and then initialize(); it registers actions only on a pipeline that
\* has a handle; it marks the pipeline Built only after the last post_load()
\* returned, and not at all when one raised.
C12_LoadOrder ==
    [][(last'.op = "load" /\ files[last'.path].exists
            /\ \A i \in 1..Len(files[last'.path].tools) :
                  InRegistry(files[last'.path].tools[i].type)) =>
        LET tr == last'.trace
            n == Len(files[last'.path].tools)
            hooks == SelectSeq(tr, LAMBDA x : x.e \in {"post_load", "initialize"})
        IN /\ \A i \in 1..n : tr[i] = Ev("append", Len(tools) + i, i)
           /\ Where(tr, "append") = 1..n
           /\ Where(tr, "post_load") \cup Where(tr, "initialize") = (n + 1)..(n + Len(hooks))
           /\ \A j \in 1..Len(hooks) :
                 hooks[j] = Ev(IF j % 2 = 1 THEN "post_load" ELSE "initialize",
                               Len(tools) + ((j + 1) \div 2), 0)
           /\ last'.out = "ok" => /\ Len(hooks) = 2 * n
                                  /\ Where(tr, "mark_built") # {}
                                  /\ \A m \in Where(tr, "mark_built") : m > n + Len(hooks)
                                  /\ pipelines'[last'.ret].built
                                  /\ Where(tr, "register") # {} =>
                                        pipelines'[last'.ret].mcp # None
           /\ last'.out # "ok" => /\ Where(tr, "mark_built") = {}
                                  /\ pipelines' = pipelines
    ]_vars

\* load() returned a pipeline of two tools
C12_Witness ==
    /\ last.op = "load" /\ last.out = "ok"
    /\ Len(pipelines[last.ret].tools) = 2
    /\ Cardinality(Where(last.trace, "post_load")) = 2

\* C13: load() of a document with an entry whose type is not a registry key
\* fails with ValidationError, returns no pipeline and builds nothing; when
\* every type is registered, the pipeline it returns has one tool per entry,
\* of the entry's registered class and parameters, in document order.
C13_UnknownToolType ==
    [][(last'.op = "load" /\ files[last'.path].exists) =>
        LET doc == files[last'.path]
        IN /\ (\E i \in 1..Len(doc.tools) : ~InRegistry(doc.tools[i].type)) =>
                 /\ last'.out = "ValidationError"
                 /\ last'.ret = None
                 /\ pipelines' = pipelines
                 /\ tools' = tools
           /\ ((\A i \in 1..Len(doc.tools) : InRegistry(doc.tools[i].type))
                    /\ last'.out = "ok") =>
                 /\ Len(pipelines'[last'.ret].tools) = Len(doc.tools)
                 /\ \A i \in 1..Len(doc.tools) :
                       /\ pipelines'[last'.ret].tools[i] = Len(tools) + i
                       /\ tools'[Len(tools) + i].cls = RegistryClass(doc.tools[i].type)
                       /\ tools'[Len(tools) + i].params = doc.tools[i].params
    ]_vars

\* load() refused a document whose first entry is registered and whose
\* second is not
C13_Witness ==
    /\ last.op = "load" /\ last.out = "ValidationError"
    /\ Len(files[last.path].tools) = 2
    /\ InRegistry(files[last.path].tools[1].type)
    /\ ~InRegistry(files[last.path].tools[2].type)
    /\ pipelines = <<>>

WithOps == {"with_tool", "with_tools", "with_preset"}

\* the tools a successful with_* call is to append: its arguments, or for
\* with_preset the one HelloWorld of the pipeline ExamplePreset.create returns
Given(l) ==
    IF l.op = "with_preset" THEN <<[cls |-> "HelloWorld", params |-> "p1"]>> ELSE l.args

\* C14: the pipeline a with_tool, with_tools or with_preset call returns has
\* the receiver's tool sequence followed by the appended tools in call order
\* (for with_preset the tools of the pipeline the factory produced): nothing
\* dropped, duplicated or reordered.
C14_ToolsConcatenated ==
    [][(last'.op \in WithOps /\ last'.out = "ok") =>
        LET old == pipelines[last'.pid].tools
            new == pipelines'[last'.ret].tools
            given == Given(last')
        IN /\ Len(new) = Len(old) + Len(given)
           /\ SubSeq(new, 1, Len(old)) = old
           /\ \A i \in 1..Len(given) :
                 /\ new[Len(old) + i] = Len(tools) + i
                 /\ tools'[new[Len(old) + i]].cls = given[i].cls
                 /\ tools'[new[Len(old) + i]].params = given[i].params
           /\ Len(tools') = Len(tools) + Len(given)
           /\ SubSeq(tools', 1, Len(tools)) = tools
    ]_vars

\* with_preset on a pipeline that has a tool of another class returned a
\* pipeline of two tools
C14_Witness ==
    /\ last.op = "with_preset" /\ last.out = "ok"
    /\ Len(pipelines[last.ret].tools) = 2
    /\ tools[pipelines[last.ret].tools[1]].cls = "ApiTool"

\* what every successful with_* call leaves alone and makes: a new, Unbuilt
\* pipeline; the receiver and every other pipeline as they were
NewUnbuiltReceiverKept ==
    /\ last'.ret = Len(pipelines) + 1
    /\ Len(pipelines') = Len(pipelines) + 1
    /\ ~pipelines'[last'.ret].built
    /\ SubSeq(pipelines', 1, Len(pipelines)) = pipelines
    /\ SubSeq(configs', 1, Len(configs)) = configs

C16_UnknownPresetListsNames ==
    [][(last'.op = "with_preset" /\ last'.args[1] \notin ALL_PRESETS) =>
        /\ last'.out = "PresetError"
        /\ last'.msg.names = ALL_PRESETS
        /\ UNCHANGED Core
    ]_vars

\* C20: build() with a format name that is not registered fails, and when
\* it gets as far as resolving the format it fails with a ValidationError
\* whose message enumerates the registered format names.
C20_UnknownFormatListsNames ==
    [][\A p \in Pids, fmt \in Formats \ Generators, createOk \in BOOLEAN, genOk \in BOOLEAN :
          Build(p, fmt, createOk, genOk) =>
              /\ last'.out # "ok"
              /\ last'.at = "_generate_config" =>
                    /\ last'.out = "ValidationError"
                    /\ last'.msg.unknown = fmt
                    /\ last'.msg.names = Generators
    ]_vars

\* C17: merge_env never changes the value of a key that is present: an item
\* whose (prefixed) key is present with another value makes it fail with
\* ConfigError naming the key and both values; without such an item it
\* succeeds, adds the absent keys and leaves the rest, so merging what is
\* already there changes nothing.
C17_MergeNeverOverwrites ==
    [][last'.op = "merge_env" =>
        \A c \in Cids :
            LET old == configs[c].env_vars
                new == configs'[c].env_vars
                items == last'.args[1]
                prefix == last'.args[2]
                Key(i) == prefix \o items[i].key
                Clash(i) == Key(i) \in DOMAIN old /\ old[Key(i)] # items[i].value
                clashes == {i \in 1..Len(items) : Clash(i)}
            IN /\ \A k \in DOMAIN old : k \in DOMAIN new /\ new[k] = old[k]
               /\ clashes # {} =>
                     /\ last'.out = "ConfigError"
                     /\ \E i \in clashes : last'.val = <<Key(i), old[Key(i)], items[i].value>>
               /\ clashes = {} =>
                     /\ last'.out = "ok"
                     /\ DOMAIN new = DOMAIN old \cup {Key(i) : i \in 1..Len(items)}
                     /\ \A i \in 1..Len(items) : new[Key(i)] = items[i].value
               /\ (\A i \in 1..Len(items) :
                        Key(i) \in DOMAIN old /\ old[Key(i)] = items[i].value) =>
                     last'.out = "ok" /\ new = old
    ]_vars

\* a merge under a prefix was refused because the prefixed key holds another
\* value, which it still holds
C17_Witness ==
    /\ last.op = "merge_env" /\ last.out = "ConfigError"
    /\ last.args[2] = "MY_"
    /\ last.val[1] = "MY_API_KEY"
    /\ configs[1].env_vars["MY_API_KEY"] = last.val[2]
    /\ last.val[2] # last.val[3]

\* C18: get_env_var gives the override map's value if the key is there,
\* else the process environment's, else the default; it fails with
\* ConfigError exactly when the key is required and none of the three
\* yields a value; a key that is not required and resolves nowhere gives
\* the empty string, never None.
C18_GetEnvVarResolution ==
    last.op = "get_env_var" =>
        \A c \in Cids :
            LET key == last.args[1]
                default == last.args[2]
                required == last.args[3]
                value == IF key \in DOMAIN configs[c].env_vars THEN configs[c].env_vars[key]
                         ELSE IF key \in DOMAIN environ THEN environ[key]
                         ELSE default
            IN /\ (last.out = "ConfigError") <=> (required /\ value = Absent)
               /\ last.out # "ConfigError" =>
                     /\ last.out = "ok"
                     /\ last.val = <<IF value = Absent THEN "" ELSE value>>
                     /\ last.val[1] # Absent

\* a key set to different values in the override map and in the process
\* environment resolved to the override map's value
C18_Witness ==
    /\ last.op = "get_env_var" /\ last.out = "ok"
    /\ last.args[1] \in DOMAIN configs[1].env_vars
    /\ last.args[1] \in DOMAIN environ
    /\ environ[last.args[1]] # configs[1].env_vars[last.args[1]]
    /\ last.val = <<configs[1].env_vars[last.args[1]]>>

\* the variables tool i declares without default that resolve nowhere
UnresolvedOf(c, i) ==
    {k \in DOMAIN ToolClass[tools[i].cls].required_env_vars :
        /\ ToolClass[tools[i].cls].required_env_vars[k] = Absent
        /\ k \notin DOMAIN configs[c].env_vars
        /\ k \notin DOMAIN environ}

\* C19: validate_for_tools looks at every declared variable of every tool
\* and raises once: its ConfigError has exactly one entry per variable that
\* is declared without default and does not resolve, the entries in tool
\* order; it raises nothing when there is no such variable.
C19_ValidationAggregates ==
    last.op = "validate_for_tools" =>
        \A c \in Cids :
            LET errs == last.val
            IN /\ (last.out = "ConfigError") <=> (\E i \in 1..Len(tools) : UnresolvedOf(c, i) # {})
               /\ last.out \in {"ok", "ConfigError"}
               /\ \A i \in 1..Len(tools) : \A k \in UnresolvedOf(c, i) :
                     Cardinality({j \in 1..Len(errs) : errs[j].pos = i /\ errs[j].key = k}) = 1
               /\ \A j \in 1..Len(errs) :
                     /\ errs[j].pos \in 1..Len(tools)
                     /\ errs[j].key \in UnresolvedOf(c, errs[j].pos)
                     /\ errs[j].tool = tools[errs[j].pos].cls
               /\ \A j \in 1..Len(errs) : \A m \in 1..Len(errs) :
                     j < m => errs[j].pos <= errs[m].pos

\* two tools each lack their required variable and the error has both entries
C19_Witness ==
    /\ last.op = "validate_for_tools" /\ last.out = "ConfigError"
    /\ Len(last.val) = 2
    /\ last.val[1].pos = 1 /\ last.val[2].pos = 2

\* C28: merge_env is atomic: a call that fails with ConfigError leaves the
\* configuration's environment map exactly as it was before the call.
C28_MergeAtomic ==
    [][last'.op = "merge_env" /\ last'.out = "ConfigError" => configs' = configs]_vars

\* C22: when run() ends, after the serve call returned or raised, the
\* public teardown() of each of the pipeline's tools has been called exactly
\* once by that run.
C22_ToolTeardownCalledOnce ==
    [][last'.op = "run" /\ Where(last'.trace, "serve") # {} =>
        \A i \in 1..Len(pipelines[last'.pid].tools) :
            LET t == pipelines[last'.pid].tools[i]
            IN tools'[t].teardowns = tools[t].teardowns + 1
    ]_vars

\* C26: the actions registered on the runtime handle of a Built pipeline are
\* exactly the actions of that pipeline's own tools, in tool order, each
\* registered once.
C26_ActionsRegisteredOnce ==
    \A p \in Pids :
        pipelines[p].built /\ pipelines[p].mcp # None =>
            handles[pipelines[p].mcp].registered = ActionsOf(tools, pipelines[p].tools)

\* C25 as stated: whenever a pipeline is Built its serving-runtime handle is
\* present.
C25_BuiltHasHandle ==
    \A p \in Pids : pipelines[p].built => pipelines[p].mcp # None

\* C25, amended: a pipeline on which build() succeeded is Built and has a
\* handle; the pipeline load() returns is Built and has none; run() on a
\* Built pipeline fails with InitializationError exactly when the pipeline
\* has no handle, and then nothing is served and nothing is torn down.
C25_LoadedHasNoHandle ==
    [][/\ last'.op = "build" /\ last'.out = "ok" =>
            pipelines'[last'.pid].built /\ pipelines'[last'.pid].mcp # None
       /\ last'.op = "load" /\ last'.out = "ok" =>
            pipelines'[last'.ret].built /\ pipelines'[last'.ret].mcp = None
       /\ last'.op = "run" /\ pipelines[last'.pid].built =>
            /\ last'.out = "InitializationError" <=> pipelines[last'.pid].mcp = None
            /\ pipelines[last'.pid].mcp = None =>
                  last'.trace = <<>> /\ tools' = tools /\ handles' = handles
    ]_vars

\* run() on the pipeline load() returned, whose tools load() initialized
C25_Witness ==
    /\ last.op = "run" /\ last.out = "InitializationError"
    /\ pipelines[last.pid].built /\ pipelines[last.pid].mcp = None
    /\ pipelines[last.pid].tools # <<>>
    /\ \A i \in 1..Len(pipelines[last.pid].tools) :
           LET t == tools[pipelines[last.pid].tools[i]]
           IN t.postLoads = 1 /\ t.inits = 1 /\ t.teardowns = 0
              /\ \A b \in 1..Len(t.bdowns) : t.bdowns[b] = 0

\* C27 as stated: when build() raises in the generator dispatch (unknown
\* format, or the generator rejecting its inputs), the pipeline is not
\* marked Built, no tool has been initialized and no action registered.
C27_GeneratorFailureLeavesUnbuilt ==
    [][last'.op = "build" /\ last'.at = "_generate_config" =>
        /\ ~pipelines'[last'.pid].built
        /\ tools' = tools
        /\ handles' = handles
    ]_vars

\* C27, amended: when build() raises in the generator dispatch, steps (a) to
\* (f) have taken effect: the pipeline is Built and has a handle, each of
\* its tools has been initialized by this call and the actions of its tools
\* have been registered on the handle; no host file has been written and
\* no artifact is returned.
C27_GeneratorFailureLeavesBuilt ==
    [][last'.op = "build" /\ last'.at = "_generate_config" =>
        LET p == last'.pid
            ts == pipelines[p].tools
            before == IF pipelines[p].mcp = None THEN <<>>
                      ELSE handles[pipelines[p].mcp].registered
        IN /\ last'.out # "ok"
           /\ pipelines'[p].built
           /\ pipelines'[p].mcp # None
           /\ \A i \in 1..Len(ts) : tools'[ts[i]].inits = tools[ts[i]].inits + 1
           /\ handles'[pipelines'[p].mcp].registered = before \o ActionsOf(tools, ts)
           /\ hostfs' = hostfs
           /\ last'.val = <<>>
    ]_vars

\* a build the host-launch generator rejected (command not on PATH or
\* working directory missing), on a pipeline with tools
C27_Witness ==
    /\ last.op = "build" /\ last.at = "_generate_config"
    /\ last.out = "ValidationError" /\ last.msg = NoMessage
    /\ last.args # <<>> /\ last.args[1] = "fastmcp"
    /\ pipelines[last.pid].built
    /\ pipelines[last.pid].tools # <<>>

\* C23: a tool's teardown() never raises, whether the tool's own teardown
\* override or one of its backends' teardown() raises, and teardown() is
\* called on every backend of the tool that has one.
C23_ToolTeardownNeverRaises ==
    [][last'.op = "teardown" =>
        LET t == last'.ret
            bks == ToolClass[tools[t].cls].backends
        IN /\ last'.out = "ok"
           /\ \A b \in 1..Len(bks) :
                  bks[b].hasTeardown => tools'[t].bdowns[b] = tools[t].bdowns[b] + 1
    ]_vars

\* C29: constructing a StackConfig with overrides does not change the
\* process environment, so what a configuration constructed afterwards
\* resolves does not depend on the overrides of an earlier one.
C29_ConstructionLeavesEnvironment ==
    [][last'.op = "StackConfig" => environ' = environ]_vars

\* C21 as stated: a successful build with the host-launch or the container
\* generator returns an artifact whose entry's env holds every key and value
\* of the configuration's environment map, plus MCPSTACK_CONFIG_PATH when a
\* pipeline config path is passed, and leaves the configuration unchanged.
C21_ArtifactEnvHoldsConfigEnv ==
    [][last'.op = "build" /\ last'.out = "ok" =>
        LET env == last'.val[1][ServerName].env
            cfg == configs[pipelines[last'.pid].config].env_vars
            pcp == last'.args[2]
        IN /\ \A k \in DOMAIN cfg : k \in DOMAIN env /\ env[k] = cfg[k]
           /\ pcp # NoPath => ConfigPathKey \in DOMAIN env /\ env[ConfigPathKey] = pcp
           /\ configs' = configs
    ]_vars

\* C21, amended: the env of the returned entry is the configuration's
\* environment map with MCPSTACK_CONFIG_PATH set to the pipeline config path
\* when one is passed, which replaces a value the map has under that key;
\* every other key has the map's value, no other key is added, and the
\* configuration is unchanged.
C21_ArtifactEnvIsOverlay ==
    [][last'.op = "build" /\ last'.out = "ok" =>
        LET env == last'.val[1][ServerName].env
            cfg == configs[pipelines[last'.pid].config].env_vars
            pcp == last'.args[2]
        IN /\ DOMAIN env = DOMAIN cfg \cup (IF pcp # NoPath THEN {ConfigPathKey} ELSE {})
           /\ \A k \in DOMAIN env :
                  env[k] = IF k = ConfigPathKey /\ pcp # NoPath THEN pcp ELSE cfg[k]
           /\ configs' = configs
    ]_vars

\* a successful build of a pipeline with a tool requiring API_KEY, on a
\* configuration holding API_KEY and a MCPSTACK_CONFIG_PATH of its own, with
\* another pipeline config path passed
C21_Witness ==
    /\ last.op = "build" /\ last.out = "ok"
    /\ last.args[2] = "pipeline.json"
    /\ \E i \in 1..Len(pipelines[last.pid].tools) :
           tools[pipelines[last.pid].tools[i]].cls = "ApiTool"
    /\ configs[pipelines[last.pid].config].env_vars =
           [k \in {"API_KEY", ConfigPathKey} |-> IF k = "API_KEY" THEN "secret" ELSE "old.json"]
    /\ last.val[1][ServerName].env["API_KEY"] = "secret"
    /\ last.val[1][ServerName].env[ConfigPathKey] = "pipeline.json"

\* C24: when a generator merges its artifact into a host configuration file
\* that exists and holds server entries, every entry the file holds under
\* another name is still there and unchanged afterwards, and the entry
\* under the generator's server name is the new one, replacing what was
\* there; for the Docker generator and for the host-launch generator.
C24_MergeKeepsOtherServers ==
    [][/\ last'.op = "build" /\ last'.out = "ok"
       /\ last'.args[3] = NoPath
       /\ hostfs[ClaudePath].state = "valid"
       =>
        LET old == hostfs[ClaudePath].servers
            new == hostfs'[ClaudePath].servers
            cfg == configs[pipelines[last'.pid].config].env_vars
        IN /\ hostfs'[ClaudePath].state = "valid"
           /\ DOMAIN new = DOMAIN old \cup {ServerName}
           /\ \A n \in DOMAIN old : n # ServerName => new[n] = old[n]
           /\ new[ServerName].command = (IF last'.args[1] = "docker" THEN "docker" ELSE "python")
           /\ \A k \in DOMAIN cfg :
                  k # ConfigPathKey => new[ServerName].env[k] = cfg[k]
           /\ hostfs'[SavePath] = hostfs[SavePath]
    ]_vars

\* a merge into a file holding another program's entry and an older entry
\* under the server name, which the new entry has replaced
C24_Witness ==
    /\ last.op = "build" /\ last.out = "ok" /\ last.args[3] = NoPath
    /\ last.args[1] = "docker"
    /\ hostfs[ClaudePath].state = "valid"
    /\ DOMAIN hostfs[ClaudePath].servers = {"other", ServerName}
    /\ hostfs[ClaudePath].servers["other"] = OtherServers["other"]
    /\ hostfs[ClaudePath].servers[ServerName].command = "docker"
    /\ hostfs[ClaudePath].servers[ServerName].env = [k \in {"API_KEY"} |-> "secret"]

\* C30: for every generator, the server entry written to the save path or
\* merged into the host configuration file equals the server entry of the
\* artifact build() returns, MCPSTACK_CONFIG_PATH included when a pipeline
\* config path is passed.
C30_WrittenEqualsReturned ==
    [][/\ last'.op = "build" /\ last'.out = "ok"
       /\ last'.args[3] # NoPath \/ hostfs[ClaudePath].state # "nodir"
       =>
        LET path == IF last'.args[3] # NoPath THEN last'.args[3] ELSE ClaudePath
        IN /\ hostfs'[path].state = "valid"
           /\ hostfs'[path].servers[ServerName] = last'.val[1][ServerName]
    ]_vars

====
